---- MODULE Spec2Model ----
(***************************************************************************)
(* The semantic retrieval engine of photo-assistant: FAQSystem in          *)
(* src/faq_system.py.  The model covers the start-up sequence of __init__  *)
(* (load_faq, _get_file_hash, _load_cached_embeddings,                     *)
(* generate_all_embeddings, _save_embeddings_cache), the query path        *)
(* (answer_question, find_similar_faqs, cosine_similarity, _build_context, *)
(* _generate_answer_with_llm) and the two files the engine touches: the    *)
(* FAQ corpus file and faq_embeddings_cache.pkl.  Spec runs one process    *)
(* between edits of the files, SpecConc several processes starting side by *)
(* side, SpecApi an application that calls the public methods of a started *)
(* engine, SpecThreads the threads of one process calling answer_question, *)
(* SpecCos single calls of cosine_similarity.                              *)
(*                                                                         *)
(* Similarities are rationals scaled by Scale.  A norm is rounded as a     *)
(* float is, to a whole number of units of 1/NormUnit.  The vectors the    *)
(* provider of the model returns have whole norms, so in the engine each   *)
(* cosine is an exact multiple of 1/Scale and the comparisons with 0.3 and *)
(* 0.85 are those of the code; SpecCos also takes vectors whose norm is    *)
(* not a whole number.                                                     *)
(***************************************************************************)
EXTENDS Integers, Sequences, FiniteSets, TLC

\* Number of operating-system processes that may run the engine at once.
NProcs == 2

Procs == 1..NProcs

\* Similarities are integers in units of 1/Scale.
Scale == 100 * 100

(***************************************************************************)
(* Texts, vectors and the embedding provider                               *)
(***************************************************************************)

\* Embedding vectors (integer stand-ins for the provider's floats).
E1  == <<1, 0, 0, 0, 0>>
E2  == <<0, 1, 0, 0, 0>>
B30 == <<3, 9, 3, 1, 0>>
B85 == <<17, 10, 3, 1, 1>>
Zero == <<0, 0, 0, 0, 0>>

\* embedding_deployment values a start-up may be configured with.
Models == {"m1", "m2"}

\* What the embedding deployment returns for a text when the call succeeds.
ProviderVector(model, text) ==
    IF model = "m1"
    THEN CASE text = "A"  -> E1
           [] text = "B"  -> B30
           [] text = "C"  -> B85
           [] text = "qa" -> E1
           [] text = "qd" -> E2
           [] OTHER       -> Zero
    ELSE CASE text = "A"  -> E2
           [] text = "B"  -> E1
           [] text = "C"  -> B30
           [] text = "qa" -> E1
           [] text = "qd" -> E2
           [] OTHER       -> Zero

\* get_embedding: the provider's vector, or [] when the call raises.
GetEmbedding(model, text, ok) ==
    IF ok THEN ProviderVector(model, text) ELSE <<>>

(***************************************************************************)
(* The FAQ corpus file                                                     *)
(***************************************************************************)

\* One entry of the "faqs" list: a dict, given by its keys and its question.
Faq(id, q, keys) == [id |-> id, question |-> q, keys |-> keys]

FullKeys == {"id", "question", "answer"}

\* The byte contents the corpus file may hold.  "kind" is what load_faq
\* makes of them, "faqs" the parsed data['faqs'], "md5" the MD5 digest of
\* the bytes.  Contents 1 and 2 differ in whitespace only; contents 1 and 4
\* are an MD5 collision; contents 11 ask the same question in two entries.
FileTable ==
    <<
      [kind |-> "ok", faqs |-> <<Faq(1, "A", FullKeys)>>, md5 |-> "d1"],
      [kind |-> "ok", faqs |-> <<Faq(1, "A", FullKeys)>>, md5 |-> "d2"],
      [kind |-> "ok", faqs |-> <<Faq(1, "B", FullKeys), Faq(2, "C", FullKeys)>>,
       md5 |-> "d3"],
      [kind |-> "ok", faqs |-> <<Faq(1, "B", FullKeys)>>, md5 |-> "d1"],
      [kind |-> "ok",
       faqs |-> <<Faq(1, "A", FullKeys), Faq(2, "C", {"id", "question"})>>,
       md5 |-> "d5"],
      [kind |-> "ok", faqs |-> <<>>, md5 |-> "d6"],
      [kind |-> "ok",
       faqs |-> <<Faq(1, "A", FullKeys), Faq(2, "", {"id", "answer"})>>,
       md5 |-> "d7"],
      [kind |-> "missing", faqs |-> <<>>, md5 |-> "none"],
      [kind |-> "badjson", faqs |-> <<>>, md5 |-> "d9"],
      [kind |-> "nokey", faqs |-> <<>>, md5 |-> "d10"],
      [kind |-> "ok",
       faqs |-> <<Faq(1, "C", FullKeys), Faq(2, "A", FullKeys),
                  Faq(3, "A", FullKeys)>>,
       md5 |-> "d11"]
    >>

Files == DOMAIN FileTable

\* LoadFaq taking a document without the 'faqs' key for an empty corpus.
LoadFaqLenient(f) ==
    IF FileTable[f].kind \in {"ok", "nokey"}
    THEN [raised |-> FALSE, faq_data |-> FileTable[f].faqs]
    ELSE [raised |-> TRUE, faq_data |-> <<>>]

\* load_faq: the parsed entries, or a raised Exception.
LoadFaq(f) ==
    IF FileTable[f].kind = "ok"
    THEN [raised |-> FALSE, faq_data |-> FileTable[f].faqs]
    ELSE [raised |-> TRUE, faq_data |-> <<>>]

\* A hash of the parsed entries in place of the bytes.
GetFileHashOfEntries(f) == IF f = 2 THEN FileTable[1].md5 ELSE FileTable[f].md5

\* _get_file_hash: the MD5 digest of the file's bytes.
GetFileHash(f) == FileTable[f].md5

(***************************************************************************)
(* The cache file faq_embeddings_cache.pkl                                 *)
(***************************************************************************)

\* The keys of the pickled dict.
CacheKeys == {"embeddings", "file_hash", "faq_count", "model", "timestamp"}

\* What the cache file may hold: nothing ("absent"), a truncated or
\* half-written pickle ("partial"), bytes that are no pickle ("garbage"), or
\* a pickled dict ("record") with the keys it has.  src is not part of the
\* file: it remembers the corpus contents the record was built from.
NoCache ==
    [kind |-> "absent", keys |-> {}, embeddings |-> <<>>, file_hash |-> "",
     faq_count |-> 0, model |-> "", src |-> 0]

PartialCache == [NoCache EXCEPT !.kind = "partial"]

GarbageCache == [NoCache EXCEPT !.kind = "garbage"]

\* CacheDict storing the chat deployment in place of the embedding one.
CacheDictChatModel(embeddings, file_hash, faq_data, model, src) ==
    [kind |-> "record", keys |-> CacheKeys, embeddings |-> embeddings,
     file_hash |-> file_hash, faq_count |-> Len(faq_data), model |-> "chat",
     src |-> src]

\* The dict _save_embeddings_cache builds before it opens the file.
CacheDict(embeddings, file_hash, faq_data, model, src) ==
    [kind |-> "record", keys |-> CacheKeys, embeddings |-> embeddings,
     file_hash |-> file_hash, faq_count |-> Len(faq_data), model |-> model,
     src |-> src]

\* One opcode of a pickle stream with its integer or string argument.
Token(op, n, str) == [op |-> op, n |-> n, str |-> str]

\* The pickle of a list of floats: an empty list is the single opcode
\* EMPTY_LIST, a non-empty one is filled by MARK ... APPENDS.
PickleFloats(v) ==
    IF v = <<>> THEN <<Token("EMPTY_LIST", 0, "")>>
    ELSE <<Token("EMPTY_LIST", 0, ""), Token("MARK", 0, "")>>
         \o [i \in 1..Len(v) |-> Token("BINFLOAT", v[i], "")]
         \o <<Token("APPENDS", 0, "")>>

RECURSIVE PickleVectorsFrom(_, _)
PickleVectorsFrom(embs, i) ==
    IF i > Len(embs) THEN <<>>
    ELSE PickleFloats(embs[i]) \o PickleVectorsFrom(embs, i + 1)

\* The pickle of self.embeddings, a list of lists of floats.
PickleVectors(embs) ==
    IF embs = <<>> THEN <<Token("EMPTY_LIST", 0, "")>>
    ELSE <<Token("EMPTY_LIST", 0, ""), Token("MARK", 0, "")>>
         \o PickleVectorsFrom(embs, 1)
         \o <<Token("APPENDS", 0, "")>>

\* PickleDump writing the non-empty vectors only.
PickleDumpNoEmpty(cache) ==
    <<Token("EMPTY_DICT", 0, ""), Token("MARK", 0, ""),
      Token("BINUNICODE", 0, "embeddings")>>
    \o PickleVectors(SelectSeq(cache.embeddings, LAMBDA v : v # <<>>))
    \o <<Token("BINUNICODE", 0, "file_hash"),
          Token("BINUNICODE", 0, cache.file_hash),
          Token("BINUNICODE", 0, "faq_count"),
          Token("BININT", cache.faq_count, ""),
          Token("BINUNICODE", 0, "model"),
          Token("BINUNICODE", 0, cache.model),
          Token("BINUNICODE", 0, "timestamp"),
          Token("BINUNICODE", 0, "now"),
          Token("SETITEMS", 0, ""), Token("STOP", 0, "")>>

\* pickle.dump(cache, f): the opcodes written for the dict of line 109, in
\* the order of its keys.
PickleDump(cache) ==
    <<Token("EMPTY_DICT", 0, ""), Token("MARK", 0, ""),
      Token("BINUNICODE", 0, "embeddings")>>
    \o PickleVectors(cache.embeddings)
    \o <<Token("BINUNICODE", 0, "file_hash"),
          Token("BINUNICODE", 0, cache.file_hash),
          Token("BINUNICODE", 0, "faq_count"),
          Token("BININT", cache.faq_count, ""),
          Token("BINUNICODE", 0, "model"),
          Token("BINUNICODE", 0, cache.model),
          Token("BINUNICODE", 0, "timestamp"),
          Token("BINUNICODE", 0, "now"),
          Token("SETITEMS", 0, ""), Token("STOP", 0, "")>>

\* An object on the unpickler's stack, and the mark.
Item(v) == [mark |-> FALSE, v |-> v]

MarkItem == [mark |-> TRUE, v |-> 0]

\* The position of the topmost mark on the stack, 0 if there is none.
LastMark(stack) ==
    IF \E i \in 1..Len(stack) : stack[i].mark
    THEN CHOOSE i \in 1..Len(stack) :
             stack[i].mark /\ \A j \in (i + 1)..Len(stack) : ~stack[j].mark
    ELSE 0

\* The unpickler's loop: it reads opcodes from position i on and returns the
\* object on top of the stack at STOP, or raises (end of file before STOP,
\* no mark or no container under the mark, an odd number of dict items).
RECURSIVE Unpickle(_, _, _)
Unpickle(bytes, i, stack) ==
    IF i > Len(bytes) THEN [raised |-> TRUE, value |-> <<>>]
    ELSE LET t == bytes[i]
             m == LastMark(stack)
             n == Len(stack) - m
         IN CASE t.op = "STOP" ->
                     IF Len(stack) = 0 THEN [raised |-> TRUE, value |-> <<>>]
                     ELSE [raised |-> FALSE, value |-> stack[Len(stack)].v]
              [] t.op = "MARK" ->
                     Unpickle(bytes, i + 1, Append(stack, MarkItem))
              [] t.op \in {"EMPTY_DICT", "EMPTY_LIST"} ->
                     Unpickle(bytes, i + 1, Append(stack, Item(<<>>)))
              [] t.op = "BINUNICODE" ->
                     Unpickle(bytes, i + 1, Append(stack, Item(t.str)))
              [] t.op \in {"BININT", "BINFLOAT"} ->
                     Unpickle(bytes, i + 1, Append(stack, Item(t.n)))
              [] t.op = "APPENDS" ->
                     IF m < 2 THEN [raised |-> TRUE, value |-> <<>>]
                     ELSE Unpickle(bytes, i + 1,
                              Append(SubSeq(stack, 1, m - 2),
                                     Item(stack[m - 1].v
                                          \o [j \in 1..n |-> stack[m + j].v])))
              [] t.op = "SETITEMS" ->
                     IF m < 2 \/ n % 2 # 0
                     THEN [raised |-> TRUE, value |-> <<>>]
                     ELSE Unpickle(bytes, i + 1,
                              Append(SubSeq(stack, 1, m - 2),
                                     Item(stack[m - 1].v
                                          \o [j \in 1..(n \div 2) |->
                                                 [k |-> stack[m + 2 * j - 1].v,
                                                  v |-> stack[m + 2 * j].v]])))
              [] OTHER -> [raised |-> TRUE, value |-> <<>>]

\* The value a dict read back holds under key k (the last one set); d is
\* the default where the key is missing.
DictGet(items, k, d) ==
    IF \E j \in 1..Len(items) : items[j].k = k
    THEN items[CHOOSE j \in 1..Len(items) :
                   /\ items[j].k = k
                   /\ \A l \in (j + 1)..Len(items) : items[l].k # k].v
    ELSE d

\* PickleLoad returning the vector list in reverse order.
PickleLoadReversed(bytes, src) ==
    LET r    == Unpickle(bytes, 1, <<>>)
        embs == DictGet(r.value, "embeddings", <<>>)
    IN IF r.raised THEN PartialCache
       ELSE [kind      |-> "record",
             keys      |-> {r.value[j].k : j \in 1..Len(r.value)},
             embeddings |-> [i \in 1..Len(embs) |-> embs[Len(embs) + 1 - i]],
             file_hash |-> DictGet(r.value, "file_hash", ""),
             faq_count |-> DictGet(r.value, "faq_count", 0),
             model     |-> DictGet(r.value, "model", ""),
             src       |-> src]

\* pickle.load(f) on a file holding bytes: the dict read back, as the cache
\* file's contents are described above, or a half-written pickle where the
\* unpickler raises.  src is carried beside the bytes.
PickleLoad(bytes, src) ==
    LET r == Unpickle(bytes, 1, <<>>)
    IN IF r.raised THEN PartialCache
       ELSE [kind      |-> "record",
             keys      |-> {r.value[j].k : j \in 1..Len(r.value)},
             embeddings |-> DictGet(r.value, "embeddings", <<>>),
             file_hash |-> DictGet(r.value, "file_hash", ""),
             faq_count |-> DictGet(r.value, "faq_count", 0),
             model     |-> DictGet(r.value, "model", ""),
             src       |-> src]

\* CacheLookup without the comparison of the model.
CacheLookupNoModel(file, current_hash, faq_data, model) ==
    IF file.kind = "absent" THEN "absent"
    ELSE IF file.kind # "record" THEN "error"
    ELSE IF "file_hash" \notin file.keys THEN "error"
    ELSE IF file.file_hash # current_hash THEN "invalid"
    ELSE IF "faq_count" \notin file.keys THEN "error"
    ELSE IF file.faq_count # Len(faq_data) THEN "invalid"
    ELSE IF "embeddings" \notin file.keys THEN "error"
    ELSE "hit"

\* The body of _load_cached_embeddings up to its return: "absent" (no file),
\* "error" (pickle.load or a missing key raised), "invalid" (a field differs)
\* or "hit".  The three comparisons short-circuit in the code's order.
CacheLookup(file, current_hash, faq_data, model) ==
    IF file.kind = "absent" THEN "absent"
    ELSE IF file.kind # "record" THEN "error"
    ELSE IF "file_hash" \notin file.keys THEN "error"
    ELSE IF file.file_hash # current_hash THEN "invalid"
    ELSE IF "faq_count" \notin file.keys THEN "error"
    ELSE IF file.faq_count # Len(faq_data) THEN "invalid"
    ELSE IF "model" \notin file.keys THEN "error"
    ELSE IF file.model # model THEN "invalid"
    ELSE IF "embeddings" \notin file.keys THEN "error"
    ELSE "hit"

\* _load_cached_embeddings without its except clause.
LoadCachedEmbeddingsUncaught(file, current_hash, faq_data, model) ==
    [raised |-> CacheLookup(file, current_hash, faq_data, model) = "error",
     hit    |-> CacheLookup(file, current_hash, faq_data, model) = "hit"]

\* LoadCachedEmbeddings rejecting a record that has an empty vector.
LoadCachedEmbeddingsComplete(file, current_hash, faq_data, model) ==
    [raised |-> FALSE,
     hit    |-> /\ CacheLookup(file, current_hash, faq_data, model) = "hit"
                /\ \A i \in 1..Len(file.embeddings) :
                       file.embeddings[i] # <<>>]

\* _load_cached_embeddings: every exception is caught and returns False.
LoadCachedEmbeddings(file, current_hash, faq_data, model) ==
    [raised |-> FALSE,
     hit    |-> CacheLookup(file, current_hash, faq_data, model) = "hit"]

(***************************************************************************)
(* Similarity and ranking                                                  *)
(***************************************************************************)

RECURSIVE DotFrom(_, _, _)
DotFrom(v1, v2, i) ==
    IF i > Len(v1) THEN 0 ELSE v1[i] * v2[i] + DotFrom(v1, v2, i + 1)

\* np.dot
Dot(v1, v2) == DotFrom(v1, v2, 1)

\* A norm is a float: it has finitely many digits.  The model keeps a norm
\* as a whole number of units of 1/NormUnit.
NormUnit == 10

\* The whole number nearest to the square root of d, from n0 on: the least
\* n with (n + 1/2)^2 > d.
RECURSIVE SqrtFrom(_, _)
SqrtFrom(d, n0) ==
    IF (2 * n0 + 1) * (2 * n0 + 1) > 4 * d THEN n0 ELSE SqrtFrom(d, n0 + 1)

\* The whole part of the square root of d, from n0 on.
RECURSIVE FloorSqrtFrom(_, _)
FloorSqrtFrom(d, n0) ==
    IF (n0 + 1) * (n0 + 1) > d THEN n0 ELSE FloorSqrtFrom(d, n0 + 1)

\* np.linalg.norm: the square root of the sum of squares, rounded to the
\* nearest value a norm can take, in units of 1/NormUnit.  (The search
\* starts at the whole part of the root, which is not above the result.)
Norm(v) ==
    LET d == Dot(v, v)
    IN SqrtFrom(d * NormUnit * NormUnit, NormUnit * FloorSqrtFrom(d, 0))

\* cosine_similarity, in units of 1/Scale: the dot product over the product
\* of the two rounded norms.
CosineSimilarity(vec1, vec2) ==
    IF vec1 = <<>> \/ vec2 = <<>> THEN 0
    ELSE LET norm1 == Norm(vec1)
             norm2 == Norm(vec2)
         IN IF norm1 = 0 \/ norm2 = 0 THEN 0
            ELSE (Scale * Dot(vec1, vec2) * NormUnit * NormUnit)
                 \div (norm1 * norm2)

\* InsertDesc putting an element before those of equal score.
RECURSIVE InsertDescUnstable(_, _)
InsertDescUnstable(sorted, x) ==
    IF sorted = <<>> THEN <<x>>
    ELSE IF Head(sorted).score > x.score
         THEN <<Head(sorted)>> \o InsertDescUnstable(Tail(sorted), x)
         ELSE <<x>> \o sorted

\* list.sort(key=score, reverse=True) is stable: an element goes after every
\* element already placed whose score is at least its own.
RECURSIVE InsertDesc(_, _)
InsertDesc(sorted, x) ==
    IF sorted = <<>> THEN <<x>>
    ELSE IF Head(sorted).score >= x.score
         THEN <<Head(sorted)>> \o InsertDesc(Tail(sorted), x)
         ELSE <<x>> \o sorted

RECURSIVE SortDescFrom(_, _, _)
SortDescFrom(s, i, acc) ==
    IF i > Len(s) THEN acc ELSE SortDescFrom(s, i + 1, InsertDesc(acc, s[i]))

\* SortDesc leaving the pairs in corpus order.
SortDescNone(s) == s

\* similarities.sort(key=lambda x: x[1], reverse=True), line 195.
SortDesc(s) == SortDescFrom(s, 1, <<>>)

\* SimilaritiesFrom scoring the entries whose vector is empty too.
RECURSIVE SimilaritiesFromAll(_, _, _, _)
SimilaritiesFromAll(faq_data, embeddings, qvec, i) ==
    IF i > Len(embeddings) THEN <<>>
    ELSE <<[faq |-> faq_data[i],
            score |-> CosineSimilarity(qvec, embeddings[i])]>>
         \o SimilaritiesFromAll(faq_data, embeddings, qvec, i + 1)

\* SimilaritiesFrom pairing a vector's similarity with the entry at the
\* mirrored position.
RECURSIVE SimilaritiesFromMirrored(_, _, _, _)
SimilaritiesFromMirrored(faq_data, embeddings, qvec, i) ==
    IF i > Len(embeddings) THEN <<>>
    ELSE (IF embeddings[i] # <<>>
          THEN <<[faq |-> faq_data[Len(embeddings) + 1 - i],
                  score |-> CosineSimilarity(qvec, embeddings[i])]>>
          ELSE <<>>)
         \o SimilaritiesFromMirrored(faq_data, embeddings, qvec, i + 1)

\* The loop of find_similar_faqs: one (faq, similarity) pair per non-empty
\* cached vector, in corpus order.
RECURSIVE SimilaritiesFrom(_, _, _, _)
SimilaritiesFrom(faq_data, embeddings, qvec, i) ==
    IF i > Len(embeddings) THEN <<>>
    ELSE (IF embeddings[i] # <<>>
          THEN <<[faq |-> faq_data[i],
                  score |-> CosineSimilarity(qvec, embeddings[i])]>>
          ELSE <<>>)
         \o SimilaritiesFrom(faq_data, embeddings, qvec, i + 1)

Min(a, b) == IF a < b THEN a ELSE b

\* FindSimilarFaqs without the early return on an empty question vector.
FindSimilarFaqsNoGuard(faq_data, embeddings, qvec, top_k) ==
    IF \E i \in 1..Len(embeddings) :
           embeddings[i] # <<>> /\ i > Len(faq_data)
    THEN [raised |-> TRUE, list |-> <<>>, scored |-> 0]
    ELSE LET sorted == SortDesc(SimilaritiesFrom(faq_data, embeddings, qvec, 1))
         IN [raised |-> FALSE,
             list   |-> SubSeq(sorted, 1, Min(top_k, Len(sorted))),
             scored |-> Len(sorted)]

\* find_similar_faqs on the question's vector qvec.  faq_data[i] raises
\* IndexError when a non-empty vector has no corpus entry at its position.
\* scored counts the cosine_similarity calls made.
FindSimilarFaqs(faq_data, embeddings, qvec, top_k) ==
    IF qvec = <<>> THEN [raised |-> FALSE, list |-> <<>>, scored |-> 0]
    ELSE IF \E i \in 1..Len(embeddings) :
                embeddings[i] # <<>> /\ i > Len(faq_data)
    THEN [raised |-> TRUE, list |-> <<>>, scored |-> 0]
    ELSE LET sorted == SortDesc(SimilaritiesFrom(faq_data, embeddings, qvec, 1))
         IN [raised |-> FALSE,
             list   |-> SubSeq(sorted, 1, Min(top_k, Len(sorted))),
             scored |-> Len(sorted)]

(***************************************************************************)
(* answer_question                                                         *)
(***************************************************************************)

\* top_k of the call in answer_question.
TopK == 3

\* similarity_threshold's default, 0.3, and the literal 0.85.
DefaultThreshold == (30 * Scale) \div 100

HighThreshold == (85 * Scale) \div 100

\* similarity_threshold values a caller passes (none above 0.85).
Thresholds == {DefaultThreshold, (35 * Scale) \div 100}

\* The questions users ask.
Questions == {"qa", "qd"}

\* f"{score:.2f}" and f"{score * 100:.0f}%": the score in hundredths, rounded
\* half to even.
Hundredths(score) ==
    LET q == (score * 100) \div Scale
        r == (score * 100) % Scale
    IN IF 2 * r > Scale \/ (2 * r = Scale /\ q % 2 = 1) THEN q + 1 ELSE q

\* _build_context: one item per match, in ranked order (the answer text is
\* named by the entry's id).  faq['question'] and faq['answer'] raise
\* KeyError on an entry without the key.
BuildContext(similar_faqs) ==
    IF \E i \in 1..Len(similar_faqs) :
           ~({"question", "answer"} \subseteq similar_faqs[i].faq.keys)
    THEN [raised |-> TRUE, context |-> <<>>]
    ELSE [raised |-> FALSE,
          context |-> [i \in 1..Len(similar_faqs) |->
                         [question |-> similar_faqs[i].faq.question,
                          answer   |-> similar_faqs[i].faq.id,
                          score    |-> Hundredths(similar_faqs[i].score)]]]

\* GenerateAnswerWithLlm returning an empty text when the call raises.
GenerateAnswerWithLlmEmpty(question, context, llm_ok) ==
    IF llm_ok THEN "generated" ELSE ""

\* _generate_answer_with_llm: the model's text, or the apology that wraps
\* the error when the call raises.
GenerateAnswerWithLlm(question, context, llm_ok) ==
    IF llm_ok THEN "generated" ELSE "generation_error"

\* The result of one call, and what the call did.  kind is "returned" or
\* "raised" (raised_in names the method whose exception escaped); answer,
\* matched_faqs, confidence and top_similarity are the returned dict; the
\* other fields record the arguments, the question's vector, the number of
\* similarities computed, the ranking find_similar_faqs returned, the
\* generative-model requests made and whether that request raised.
NoResult ==
    [kind |-> "none", answer |-> "", matched_faqs |-> <<>>, confidence |-> "",
     top_similarity |-> 0, question |-> "", threshold |-> 0,
     similar_faqs |-> <<>>, llm_calls |-> 0, llm_context |-> <<>>,
     raised_in |-> "", qvec |-> <<>>, scored |-> 0, llm_failed |-> FALSE]

\* LowConfidenceResult reporting the best similarity found.
LowConfidenceResultWithTop(similar_faqs) ==
    [NoResult EXCEPT !.kind = "returned", !.answer = "apology",
                     !.matched_faqs = <<>>, !.confidence = "low",
                     !.top_similarity =
                         IF similar_faqs = <<>> THEN 0
                         ELSE similar_faqs[1].score,
                     !.similar_faqs = similar_faqs]

\* The early return of answer_question (lines 209-214).
LowConfidenceResult(similar_faqs) ==
    [NoResult EXCEPT !.kind = "returned", !.answer = "apology",
                     !.matched_faqs = <<>>, !.confidence = "low",
                     !.top_similarity = 0, !.similar_faqs = similar_faqs]

\* Confidence with the upper tier starting at 0.85 itself.
ConfidenceInclusive(top) == IF top >= HighThreshold THEN "high" ELSE "medium"

\* The confidence of the final return (line 232).
Confidence(top) == IF top > HighThreshold THEN "high" ELSE "medium"

\* The final return of answer_question (lines 216-234).
GroundedResult(question, similar_faqs, llm_ok) ==
    LET built == BuildContext(similar_faqs)
    IN IF built.raised
       THEN [NoResult EXCEPT !.kind = "raised", !.similar_faqs = similar_faqs,
                             !.raised_in = "_build_context"]
       ELSE [NoResult EXCEPT
               !.kind = "returned",
               !.answer =
                   GenerateAnswerWithLlm(question, built.context, llm_ok),
               !.matched_faqs =
                   [i \in 1..Len(similar_faqs) |->
                      [question   |-> similar_faqs[i].faq.question,
                       similarity |-> Hundredths(similar_faqs[i].score)]],
               !.confidence = Confidence(similar_faqs[1].score),
               !.top_similarity = similar_faqs[1].score,
               !.similar_faqs = similar_faqs,
               !.llm_calls = 1,
               !.llm_context = built.context,
               !.llm_failed = ~llm_ok]

\* Whether answer_question takes its early return (line 208).
NoGoodMatch(similar_faqs, similarity_threshold) ==
    similar_faqs = <<>> \/ similar_faqs[1].score < similarity_threshold

\* answer_question on an engine holding faq_data and embeddings.
AnswerQuestion(faq_data, embeddings, model, question, similarity_threshold, embed_ok, llm_ok) ==
    LET qvec  == GetEmbedding(model, question, embed_ok)
        found == FindSimilarFaqs(faq_data, embeddings, qvec, TopK)
        res   == IF found.raised
                 THEN [NoResult EXCEPT !.kind = "raised",
                                       !.raised_in = "find_similar_faqs"]
                 ELSE IF NoGoodMatch(found.list, similarity_threshold)
                 THEN LowConfidenceResult(found.list)
                 ELSE GroundedResult(question, found.list, llm_ok)
    IN [res EXCEPT !.question = question, !.threshold = similarity_threshold,
                   !.qvec = qvec, !.scored = found.scored]

(***************************************************************************)
(* State                                                                   *)
(***************************************************************************)

VARIABLES
    corpusFile,    \* the contents of the FAQ file: an index of FileTable
    cacheFile,     \* the contents of faq_embeddings_cache.pkl
    pc,            \* per process: where the engine is in its life cycle
    model,         \* per process: self.embedding_deployment
    faq_data,      \* per process: self.faq_data
    current_hash,  \* per process: current_hash of __init__
    embeddings,    \* per process: self.embeddings
    gen_i,         \* per process: entries generate_all_embeddings has visited
    result,        \* per process: the last answer_question call (none once
                   \*   another method was called)
    src,           \* history: the corpus contents load_faq read
    embedLog,      \* history: the texts embedded since the start-up began
    observed,      \* history: the cache file as _load_cached_embeddings saw it
                   \*   (observed and since are kept until the first call
                   \*   on the started engine)
    fromCache,     \* history: _load_cached_embeddings returned True
    saved,         \* history: "none", "ok" or "failed", the save's outcome
    failedAt,      \* history: the step whose exception ended the start-up
    prev,          \* history: the last start-up that completed
    since,         \* history: how this start-up relates to the one before it
    sinceFailed,   \* history: the entries whose embedding had failed in that
                   \*   start-up, when it had the same corpus and model
    ranking,       \* per process: the last find_similar_faqs call made from
                   \*   outside answer_question (none once another method
                   \*   was called)
    calls,         \* per thread of process 1: its answer_question call
    cosine         \* one cosine_similarity call: its arguments and its value

vars == <<corpusFile, cacheFile, pc, model, faq_data, current_hash, embeddings,
          gen_i, result, src, embedLog, observed, fromCache, saved, failedAt,
          prev, since, sinceFailed, ranking, calls, cosine>>

envVars == <<corpusFile, cacheFile>>

NoPrev ==
    [valid |-> FALSE, src |-> 0, model |-> "", persisted |-> FALSE,
     failed |-> {}]

\* No engine process exists.
Quiet == \A p \in Procs : pc[p] = "uninitialized"

\* How a start-up configured with model m relates to the last completed one:
\* "first" when there is none (or the cache file was damaged since), "other"
\* when the corpus bytes or the model differ, else "same_persisted" or
\* "same_unpersisted" by whether that start-up left its record in the file.
Relation(m) ==
    IF ~prev.valid THEN "first"
    ELSE IF prev.src # corpusFile \/ prev.model # m THEN "other"
    ELSE IF prev.persisted THEN "same_persisted"
    ELSE "same_unpersisted"

\* The entries left without a vector by the last completed start-up, when
\* this one has the same corpus bytes and model.
FailedBefore(m) ==
    IF Relation(m) \in {"same_persisted", "same_unpersisted"}
    THEN prev.failed ELSE {}

\* No cosine_similarity call is being looked at.
NoCosine ==
    [at |-> "none", vec1 |-> <<>>, vec2 |-> <<>>, value |-> 0, swapped |-> 0]

\* The threads of one engine process that call answer_question.
NThreads == 2

Threads == 1..NThreads

\* No find_similar_faqs call yet.
NoRanking ==
    [kind |-> "none", question |-> "", top_k |-> 0, qvec |-> <<>>,
     list |-> <<>>]

\* A thread that is in no call.  at is where the thread is in
\* answer_question; question and threshold are the arguments; qvec,
\* similar_faqs and scored are the locals question_embedding and
\* similar_faqs and the similarities computed; embed_ok and llm_ok remember
\* what the providers did for this call; result is what the call returned.
NoCall ==
    [at |-> "idle", question |-> "", threshold |-> 0, embed_ok |-> TRUE,
     llm_ok |-> TRUE, qvec |-> <<>>, similar_faqs |-> <<>>, scored |-> 0,
     result |-> NoResult]

\* No engine process has been created.
InitEngine ==
    /\ pc = [p \in Procs |-> "uninitialized"]
    /\ model = [p \in Procs |-> ""]
    /\ faq_data = [p \in Procs |-> <<>>]
    /\ current_hash = [p \in Procs |-> ""]
    /\ embeddings = [p \in Procs |-> <<>>]
    /\ gen_i = [p \in Procs |-> 0]
    /\ result = [p \in Procs |-> NoResult]
    /\ src = [p \in Procs |-> 0]
    /\ embedLog = [p \in Procs |-> <<>>]
    /\ observed = [p \in Procs |-> NoCache]
    /\ fromCache = [p \in Procs |-> FALSE]
    /\ saved = [p \in Procs |-> "none"]
    /\ failedAt = [p \in Procs |-> "none"]
    /\ prev = NoPrev
    /\ since = [p \in Procs |-> "first"]
    /\ sinceFailed = [p \in Procs |-> {}]
    /\ ranking = [p \in Procs |-> NoRanking]
    /\ calls = [t \in Threads |-> NoCall]

Init ==
    /\ corpusFile = 1
    /\ cacheFile = NoCache
    /\ InitEngine
    /\ cosine = NoCosine

(***************************************************************************)
(* Start-up: FAQSystem.__init__, one action per step that reads or writes  *)
(* a file or calls the provider                                            *)
(***************************************************************************)

\* Lines 40-45: the process is created with its configuration.
Start(p, m) ==
    /\ pc[p] = "uninitialized"
    /\ pc' = [pc EXCEPT ![p] = "loading_corpus"]
    /\ model' = [model EXCEPT ![p] = m]
    /\ faq_data' = [faq_data EXCEPT ![p] = <<>>]
    /\ embeddings' = [embeddings EXCEPT ![p] = <<>>]
    /\ gen_i' = [gen_i EXCEPT ![p] = 0]
    /\ since' = [since EXCEPT ![p] = Relation(m)]
    /\ sinceFailed' = [sinceFailed EXCEPT ![p] = FailedBefore(m)]
    /\ prev' = NoPrev
    /\ UNCHANGED <<envVars, current_hash, result, src, embedLog, observed,
                   fromCache, saved, failedAt>>
    /\ UNCHANGED <<ranking, calls, cosine>>

\* Lines 48-51: load_faq, then _get_file_hash.
LoadCorpus(p) ==
    /\ pc[p] = "loading_corpus"
    /\ LET r == LoadFaq(corpusFile)
       IN IF r.raised
          THEN /\ pc' = [pc EXCEPT ![p] = "failed"]
               /\ failedAt' = [failedAt EXCEPT ![p] = "load_faq"]
               /\ UNCHANGED <<faq_data, current_hash, src>>
          ELSE /\ pc' = [pc EXCEPT ![p] = "checking_cache"]
               /\ faq_data' = [faq_data EXCEPT ![p] = r.faq_data]
               /\ current_hash' =
                      [current_hash EXCEPT ![p] = GetFileHash(corpusFile)]
               /\ src' = [src EXCEPT ![p] = corpusFile]
               /\ UNCHANGED failedAt
    /\ UNCHANGED <<envVars, model, embeddings, gen_i, result, embedLog,
                   observed, fromCache, saved, prev, since, sinceFailed>>
    /\ UNCHANGED <<ranking, calls, cosine>>

\* The start-up that just completed, for the next one to compare with.
Completed(p, persisted, embs) ==
    [valid |-> TRUE, src |-> src[p], model |-> model[p],
     persisted |-> persisted,
     failed |-> {i \in 1..Len(embs) : embs[i] = <<>>}]

\* Line 54: _load_cached_embeddings.
CheckCache(p) ==
    /\ pc[p] = "checking_cache"
    /\ observed' = [observed EXCEPT ![p] = cacheFile]
    /\ LET r == LoadCachedEmbeddings(cacheFile, current_hash[p], faq_data[p],
                                     model[p])
       IN IF r.raised
          THEN /\ pc' = [pc EXCEPT ![p] = "failed"]
               /\ failedAt' = [failedAt EXCEPT ![p] = "load_cache"]
               /\ UNCHANGED <<embeddings, fromCache, prev>>
          ELSE IF r.hit
          THEN /\ pc' = [pc EXCEPT ![p] = "ready"]
               /\ embeddings' = [embeddings EXCEPT ![p] = cacheFile.embeddings]
               /\ fromCache' = [fromCache EXCEPT ![p] = TRUE]
               /\ prev' = Completed(p, TRUE, cacheFile.embeddings)
               /\ UNCHANGED failedAt
          ELSE /\ pc' = [pc EXCEPT ![p] = "regenerating_cache"]
               /\ UNCHANGED <<embeddings, fromCache, prev, failedAt>>
    /\ UNCHANGED <<envVars, model, faq_data, current_hash, gen_i, result, src,
                   embedLog, saved, since, sinceFailed>>
    /\ UNCHANGED <<ranking, calls, cosine>>

\* AppendEmbedding that keeps only the embeddings that succeeded.
AppendEmbeddingIfAny(embs, embedding) ==
    IF embedding # <<>> THEN Append(embs, embedding) ELSE embs

\* Lines 148-153: what one iteration of generate_all_embeddings appends.
AppendEmbedding(embs, embedding) ==
    IF embedding # <<>> THEN Append(embs, embedding) ELSE Append(embs, <<>>)

\* EnumerateFaq walking the entries from the last to the first.
EnumerateFaqReversed(faqs, i) == faqs[Len(faqs) + 1 - i]

\* Line 144: the entry enumerate yields at position i.
EnumerateFaq(faqs, i) == faqs[i]

\* Lines 144-153: one iteration of generate_all_embeddings; the provider
\* answers (ok) or raises.  faq['question'] raises KeyError on an entry
\* without the key, which ends __init__.
GenerateEmbedding(p, ok) ==
    /\ pc[p] = "regenerating_cache"
    /\ gen_i[p] < Len(faq_data[p])
    /\ LET faq == EnumerateFaq(faq_data[p], gen_i[p] + 1)
       IN IF "question" \notin faq.keys
          THEN /\ pc' = [pc EXCEPT ![p] = "failed"]
               /\ failedAt' = [failedAt EXCEPT ![p] = "generate"]
               /\ UNCHANGED <<embeddings, gen_i, embedLog>>
          ELSE /\ embeddings' =
                      [embeddings EXCEPT ![p] =
                           AppendEmbedding(@, GetEmbedding(model[p],
                                                           faq.question, ok))]
               /\ gen_i' = [gen_i EXCEPT ![p] = @ + 1]
               /\ embedLog' = [embedLog EXCEPT ![p] = Append(@, faq.question)]
               /\ UNCHANGED <<pc, failedAt>>
    /\ UNCHANGED <<envVars, model, faq_data, current_hash, result, src,
                   observed, fromCache, saved, prev, since, sinceFailed>>
    /\ UNCHANGED <<ranking, calls, cosine>>

\* The loop of generate_all_embeddings has visited every entry.
GenerationDone(p) ==
    /\ pc[p] = "regenerating_cache"
    /\ gen_i[p] >= Len(faq_data[p])

\* Line 118: open(cache_file, 'wb') truncates the file.
SaveOpen(p) ==
    /\ GenerationDone(p)
    /\ cacheFile' = PartialCache
    /\ pc' = [pc EXCEPT ![p] = "saving_cache"]
    /\ UNCHANGED <<corpusFile, model, faq_data, current_hash, embeddings,
                   gen_i, result, src, embedLog, observed, fromCache, saved,
                   failedAt, prev, since, sinceFailed>>
    /\ UNCHANGED <<ranking, calls, cosine>>

\* Lines 118, 121-122: open raises; the exception is printed.
SaveOpenFail(p) ==
    /\ GenerationDone(p)
    /\ pc' = [pc EXCEPT ![p] = "ready"]
    /\ saved' = [saved EXCEPT ![p] = "failed"]
    /\ prev' = Completed(p, FALSE, embeddings[p])
    /\ UNCHANGED <<envVars, model, faq_data, current_hash, embeddings, gen_i,
                   result, src, embedLog, observed, fromCache, failedAt,
                   since, sinceFailed>>
    /\ UNCHANGED <<ranking, calls, cosine>>

\* Line 119: pickle.dump writes the dict and the file is closed.
SaveDump(p) ==
    /\ pc[p] = "saving_cache"
    /\ cacheFile' = PickleLoad(PickleDump(CacheDict(embeddings[p],
                                  current_hash[p], faq_data[p], model[p],
                                  src[p])), src[p])
    /\ pc' = [pc EXCEPT ![p] = "ready"]
    /\ saved' = [saved EXCEPT ![p] = "ok"]
    /\ prev' = Completed(p, TRUE, embeddings[p])
    /\ UNCHANGED <<corpusFile, model, faq_data, current_hash, embeddings,
                   gen_i, result, src, embedLog, observed, fromCache,
                   failedAt, since, sinceFailed>>
    /\ UNCHANGED <<ranking, calls, cosine>>

\* SaveDumpFail letting the exception of pickle.dump end the start-up.
SaveDumpFailFatal(p) ==
    /\ pc[p] = "saving_cache"
    /\ cacheFile' = PartialCache
    /\ pc' = [pc EXCEPT ![p] = "failed"]
    /\ saved' = [saved EXCEPT ![p] = "failed"]
    /\ failedAt' = [failedAt EXCEPT ![p] = "save_cache"]
    /\ UNCHANGED <<corpusFile, model, faq_data, current_hash, embeddings,
                   gen_i, result, src, embedLog, observed, fromCache,
                   prev, since, sinceFailed>>
    /\ UNCHANGED <<ranking, calls, cosine>>

\* Lines 119, 121-122: pickle.dump raises part-way; the exception is printed.
SaveDumpFail(p) ==
    /\ pc[p] = "saving_cache"
    /\ LET bytes == PickleDump(CacheDict(embeddings[p], current_hash[p],
                                         faq_data[p], model[p], src[p]))
       IN \E written \in 0..(Len(bytes) - 1) :
              cacheFile' = PickleLoad(SubSeq(bytes, 1, written), src[p])
    /\ pc' = [pc EXCEPT ![p] = "ready"]
    /\ saved' = [saved EXCEPT ![p] = "failed"]
    /\ prev' = Completed(p, FALSE, embeddings[p])
    /\ UNCHANGED <<corpusFile, model, faq_data, current_hash, embeddings,
                   gen_i, result, src, embedLog, observed, fromCache,
                   failedAt, since, sinceFailed>>
    /\ UNCHANGED <<ranking, calls, cosine>>

(***************************************************************************)
(* Queries, process exit and the environment                               *)
(***************************************************************************)

\* answer_question(question, similarity_threshold) on a started engine; the
\* embedding and the generative provider each answer or raise.
Ask(p, question, similarity_threshold, embed_ok, llm_ok) ==
    /\ pc[p] = "ready"
    /\ result' = [result EXCEPT ![p] =
                      AnswerQuestion(faq_data[p], embeddings[p], model[p],
                                     question, similarity_threshold,
                                     embed_ok, llm_ok)]
    /\ observed' = [observed EXCEPT ![p] = NoCache]
    /\ since' = [since EXCEPT ![p] = "first"]
    /\ sinceFailed' = [sinceFailed EXCEPT ![p] = {}]
    /\ ranking' = [ranking EXCEPT ![p] = NoRanking]
    /\ UNCHANGED <<envVars, pc, model, faq_data, current_hash, embeddings,
                   gen_i, src, embedLog, fromCache, saved, failedAt, prev>>
    /\ UNCHANGED <<calls, cosine>>

\* The process ends (the constructor raised, or the application stops); its
\* memory is gone, the two files stay.
Exit(p) ==
    /\ pc[p] \in {"ready", "failed"}
    /\ pc' = [pc EXCEPT ![p] = "uninitialized"]
    /\ model' = [model EXCEPT ![p] = ""]
    /\ faq_data' = [faq_data EXCEPT ![p] = <<>>]
    /\ current_hash' = [current_hash EXCEPT ![p] = ""]
    /\ embeddings' = [embeddings EXCEPT ![p] = <<>>]
    /\ gen_i' = [gen_i EXCEPT ![p] = 0]
    /\ result' = [result EXCEPT ![p] = NoResult]
    /\ src' = [src EXCEPT ![p] = 0]
    /\ embedLog' = [embedLog EXCEPT ![p] = <<>>]
    /\ observed' = [observed EXCEPT ![p] = NoCache]
    /\ fromCache' = [fromCache EXCEPT ![p] = FALSE]
    /\ saved' = [saved EXCEPT ![p] = "none"]
    /\ failedAt' = [failedAt EXCEPT ![p] = "none"]
    /\ since' = [since EXCEPT ![p] = "first"]
    /\ sinceFailed' = [sinceFailed EXCEPT ![p] = {}]
    /\ UNCHANGED <<envVars, prev>>
    /\ ranking' = [ranking EXCEPT ![p] = NoRanking]
    /\ calls' = IF p = 1 THEN [t \in Threads |-> NoCall] ELSE calls
    /\ UNCHANGED cosine

\* Somebody edits, replaces or removes the FAQ file between runs of the
\* engine.
EditCorpus(f) ==
    /\ Quiet
    /\ f # corpusFile
    /\ corpusFile' = f
    /\ UNCHANGED <<cacheFile, pc, model, faq_data, current_hash, embeddings,
                   gen_i, result, src, embedLog, observed, fromCache, saved,
                   failedAt, prev, since, sinceFailed>>
    /\ UNCHANGED <<ranking, calls, cosine>>

\* What damage can make of the cache file: it is deleted, overwritten with
\* bytes that are no pickle, or replaced by a dict that lacks one key.
Damaged(file) ==
    {NoCache, GarbageCache}
      \cup (IF file.kind = "record" /\ file.keys = CacheKeys
            THEN {[file EXCEPT !.keys = @ \ {k}] : k \in CacheKeys}
            ELSE {})

\* The cache file is damaged between runs of the engine.
DamageCache(c) ==
    /\ Quiet
    /\ c \in Damaged(cacheFile)
    /\ c # cacheFile
    /\ cacheFile' = c
    /\ prev' = NoPrev
    /\ UNCHANGED <<corpusFile, pc, model, faq_data, current_hash, embeddings,
                   gen_i, result, src, embedLog, observed, fromCache, saved,
                   failedAt, since, sinceFailed>>
    /\ UNCHANGED <<ranking, calls, cosine>>

\* The steps of process p.
Step(p) ==
    \/ \E m \in Models : Start(p, m)
    \/ LoadCorpus(p)
    \/ CheckCache(p)
    \/ \E ok \in BOOLEAN : GenerateEmbedding(p, ok)
    \/ SaveOpen(p)
    \/ SaveOpenFail(p)
    \/ SaveDump(p)
    \/ SaveDumpFail(p)
    \/ \E q \in Questions, t \in Thresholds, eok \in BOOLEAN, lok \in BOOLEAN :
           Ask(p, q, t, eok, lok)
    \/ Exit(p)

\* The contents an edit leaves in the corpus file (the three-entry corpus
\* is met as a first corpus only).
EditedFiles == Files \ {11}

Environment ==
    \/ \E f \in EditedFiles : EditCorpus(f)
    \/ \E c \in Damaged(cacheFile) : DamageCache(c)

\* One engine process at a time, restarted at will.
Next == Step(1) \/ Environment

Spec == Init /\ [][Next]_vars

\* The start-up steps of process p.
StartupStep(p) ==
    \/ \E m \in Models : Start(p, m)
    \/ LoadCorpus(p)
    \/ CheckCache(p)
    \/ \E ok \in BOOLEAN : GenerateEmbedding(p, ok)
    \/ SaveOpen(p)
    \/ SaveOpenFail(p)
    \/ SaveDump(p)
    \/ SaveDumpFail(p)
    \/ Exit(p)

\* Several engine processes starting and restarting side by side over one
\* corpus file and one cache file.
NextConc == \E p \in Procs : StartupStep(p)

SpecConc == Init /\ [][NextConc]_vars

(***************************************************************************)
(* Public methods called on a started engine                               *)
(***************************************************************************)

\* The largest top_k a caller passes.
MaxTopK == 3

\* generate_all_embeddings is called again as long as the vector list
\* stays within this length.
MaxVectors == 4

\* FindSimilar keeping the question's vector in self.embeddings.
FindSimilarMemo(p, question, top_k, embed_ok) ==
    /\ pc[p] = "ready"
    /\ LET qvec  == GetEmbedding(model[p], question, embed_ok)
           found == FindSimilarFaqs(faq_data[p], embeddings[p], qvec, top_k)
       IN /\ ranking' =
                 [ranking EXCEPT ![p] =
                      [kind     |-> IF found.raised THEN "raised"
                                    ELSE "returned",
                       question |-> question,
                       top_k    |-> top_k,
                       qvec     |-> qvec,
                       list     |-> found.list]]
          /\ embeddings' = [embeddings EXCEPT ![p] = Append(@, qvec)]
    /\ result' = [result EXCEPT ![p] = NoResult]
    /\ observed' = [observed EXCEPT ![p] = NoCache]
    /\ since' = [since EXCEPT ![p] = "first"]
    /\ sinceFailed' = [sinceFailed EXCEPT ![p] = {}]
    /\ UNCHANGED <<envVars, pc, model, faq_data, current_hash, gen_i, src,
                   embedLog, fromCache, saved, failedAt, prev, calls, cosine>>

\* find_similar_faqs(question, top_k) called directly, as debug_matching.py
\* does; the embedding provider answers or raises.
FindSimilar(p, question, top_k, embed_ok) ==
    /\ pc[p] = "ready"
    /\ LET qvec  == GetEmbedding(model[p], question, embed_ok)
           found == FindSimilarFaqs(faq_data[p], embeddings[p], qvec, top_k)
       IN ranking' =
              [ranking EXCEPT ![p] =
                   [kind     |-> IF found.raised THEN "raised" ELSE "returned",
                    question |-> question,
                    top_k    |-> top_k,
                    qvec     |-> qvec,
                    list     |-> found.list]]
    /\ result' = [result EXCEPT ![p] = NoResult]
    /\ observed' = [observed EXCEPT ![p] = NoCache]
    /\ since' = [since EXCEPT ![p] = "first"]
    /\ sinceFailed' = [sinceFailed EXCEPT ![p] = {}]
    /\ UNCHANGED <<envVars, pc, model, faq_data, current_hash, embeddings,
                   gen_i, src, embedLog, fromCache, saved, failedAt, prev,
                   calls, cosine>>

\* The loop of generate_all_embeddings from entry i on: it appends to the
\* list it finds and stops at an entry without a question (KeyError).
RECURSIVE GenerateAllFrom(_, _, _, _, _)
GenerateAllFrom(faqs, embs, mdl, oks, i) ==
    IF i > Len(faqs) THEN embs
    ELSE LET faq == EnumerateFaq(faqs, i)
         IN IF "question" \notin faq.keys THEN embs
            ELSE GenerateAllFrom(
                     faqs,
                     AppendEmbedding(embs,
                                     GetEmbedding(mdl, faq.question, oks[i])),
                     mdl, oks, i + 1)

\* generate_all_embeddings() called on a started engine; oks[i] tells
\* whether the provider answers for entry i.
GenerateAllEmbeddings(p, oks) ==
    /\ pc[p] = "ready"
    /\ Len(faq_data[p]) > 0
    /\ Len(embeddings[p]) + Len(faq_data[p]) <= MaxVectors
    /\ LET embs    == GenerateAllFrom(faq_data[p], embeddings[p], model[p],
                                      oks, 1)
           visited == Len(embs) - Len(embeddings[p])
       IN /\ embeddings' = [embeddings EXCEPT ![p] = embs]
          /\ embedLog' =
                 [embedLog EXCEPT ![p] =
                      @ \o [i \in 1..visited |-> faq_data[p][i].question]]
    /\ result' = [result EXCEPT ![p] = NoResult]
    /\ ranking' = [ranking EXCEPT ![p] = NoRanking]
    /\ observed' = [observed EXCEPT ![p] = NoCache]
    /\ since' = [since EXCEPT ![p] = "first"]
    /\ sinceFailed' = [sinceFailed EXCEPT ![p] = {}]
    /\ UNCHANGED <<envVars, pc, model, faq_data, current_hash, gen_i, src,
                   fromCache, saved, failedAt, prev, calls, cosine>>

\* The files an application passes to load_faq on a started engine: an
\* empty corpus and a path where no file is.
ReloadFiles == {6, 8}

\* load_faq(file_path) called on a started engine with a path to contents
\* f: self.faq_data is replaced when the file parses and left alone when
\* the call raises; the vector list is not touched.
LoadFaqCall(p, f) ==
    /\ pc[p] = "ready"
    /\ LET loaded == LoadFaq(f)
       IN IF loaded.raised
          THEN UNCHANGED <<faq_data, src>>
          ELSE /\ faq_data' = [faq_data EXCEPT ![p] = loaded.faq_data]
               /\ src' = [src EXCEPT ![p] = f]
    /\ result' = [result EXCEPT ![p] = NoResult]
    /\ ranking' = [ranking EXCEPT ![p] = NoRanking]
    /\ observed' = [observed EXCEPT ![p] = NoCache]
    /\ since' = [since EXCEPT ![p] = "first"]
    /\ sinceFailed' = [sinceFailed EXCEPT ![p] = {}]
    /\ UNCHANGED <<envVars, pc, model, current_hash, embeddings, gen_i,
                   embedLog, fromCache, saved, failedAt, prev, calls, cosine>>

\* Any corpus file, no cache file, no engine process.
InitApi ==
    /\ corpusFile \in Files
    /\ cacheFile = NoCache
    /\ InitEngine
    /\ cosine = NoCosine

\* The calls an application can make on the engine object of process p.
PublicCall(p) ==
    \/ \E q \in Questions, k \in 0..MaxTopK, eok \in BOOLEAN :
           FindSimilar(p, q, k, eok)
    \/ \E oks \in [1..Len(faq_data[p]) -> BOOLEAN] :
           GenerateAllEmbeddings(p, oks)
    \/ \E f \in ReloadFiles : LoadFaqCall(p, f)

\* One engine process, restarted at will, and an application that calls
\* its public methods.
NextApi == Step(1) \/ PublicCall(1)

SpecApi == InitApi /\ [][NextApi]_vars

(***************************************************************************)
(* answer_question called from several threads of one process              *)
(***************************************************************************)

\* Thread t calls answer_question on the engine of process 1 (line 205 is
\* its first statement).
CallBegin(t, question, similarity_threshold) ==
    /\ pc[1] = "ready"
    /\ calls[t].at \in {"idle", "done"}
    /\ calls' = [calls EXCEPT ![t] =
                     [NoCall EXCEPT !.at = "embedding",
                                    !.question = question,
                                    !.threshold = similarity_threshold]]
    /\ UNCHANGED <<envVars, pc, model, faq_data, current_hash, embeddings,
                   gen_i, result, src, embedLog, observed, fromCache, saved,
                   failedAt, prev, since, sinceFailed, ranking, cosine>>

\* CallEmbed keeping the question's vector in a field of the engine that
\* the calls in progress share.
CallEmbedShared(t, ok) ==
    /\ calls[t].at = "embedding"
    /\ LET v == GetEmbedding(model[1], calls[t].question, ok)
       IN calls' =
              [u \in Threads |->
                   IF u = t
                   THEN [calls[t] EXCEPT !.at = "ranking", !.embed_ok = ok,
                                         !.qvec = v]
                   ELSE IF calls[u].at = "ranking"
                   THEN [calls[u] EXCEPT !.qvec = v]
                   ELSE calls[u]]
    /\ UNCHANGED <<envVars, pc, model, faq_data, current_hash, embeddings,
                   gen_i, result, src, embedLog, observed, fromCache, saved,
                   failedAt, prev, since, sinceFailed, ranking, cosine>>

\* Line 181: the embedding provider answers thread t's request or raises;
\* the vector goes into the local question_embedding.
CallEmbed(t, ok) ==
    /\ calls[t].at = "embedding"
    /\ LET v == GetEmbedding(model[1], calls[t].question, ok)
       IN calls' = [calls EXCEPT ![t] =
                        [@ EXCEPT !.at = "ranking", !.embed_ok = ok,
                                  !.qvec = v]]
    /\ UNCHANGED <<envVars, pc, model, faq_data, current_hash, embeddings,
                   gen_i, result, src, embedLog, observed, fromCache, saved,
                   failedAt, prev, since, sinceFailed, ranking, cosine>>

\* The call of record c ends with res.
Finish(c, res) ==
    [c EXCEPT !.at = "done",
              !.result = [res EXCEPT !.question = c.question,
                                     !.threshold = c.threshold,
                                     !.qvec = c.qvec,
                                     !.scored = c.scored]]

\* Lines 183-217: thread t ranks, takes the early return or builds the
\* context, up to the generative-model request.
CallRank(t) ==
    /\ calls[t].at = "ranking"
    /\ LET c     == calls[t]
           found == FindSimilarFaqs(faq_data[1], embeddings[1], c.qvec, TopK)
           c1    == [c EXCEPT !.similar_faqs = found.list,
                              !.scored = found.scored]
       IN calls' =
              [calls EXCEPT ![t] =
                   IF found.raised
                   THEN Finish(c1, [NoResult EXCEPT
                                      !.kind = "raised",
                                      !.raised_in = "find_similar_faqs"])
                   ELSE IF NoGoodMatch(found.list, c.threshold)
                   THEN Finish(c1, LowConfidenceResult(found.list))
                   ELSE IF BuildContext(found.list).raised
                   THEN Finish(c1, GroundedResult(c.question, found.list,
                                                  TRUE))
                   ELSE [c1 EXCEPT !.at = "generating"]]
    /\ UNCHANGED <<envVars, pc, model, faq_data, current_hash, embeddings,
                   gen_i, result, src, embedLog, observed, fromCache, saved,
                   failedAt, prev, since, sinceFailed, ranking, cosine>>

\* Lines 220-234: the generative model answers thread t's request or
\* raises, and the call returns.
CallGenerate(t, ok) ==
    /\ calls[t].at = "generating"
    /\ LET c == calls[t]
       IN calls' = [calls EXCEPT ![t] =
                        Finish([c EXCEPT !.llm_ok = ok],
                               GroundedResult(c.question, c.similar_faqs,
                                              ok))]
    /\ UNCHANGED <<envVars, pc, model, faq_data, current_hash, embeddings,
                   gen_i, result, src, embedLog, observed, fromCache, saved,
                   failedAt, prev, since, sinceFailed, ranking, cosine>>

\* The steps of thread t; the application passes no threshold, so each call
\* runs with the default.
ThreadStep(t) ==
    \/ \E q \in Questions : CallBegin(t, q, DefaultThreshold)
    \/ \E ok \in BOOLEAN : CallEmbed(t, ok)
    \/ CallRank(t)
    \/ \E ok \in BOOLEAN : CallGenerate(t, ok)

\* The construction of the engine of process p, once.
Construct(p) ==
    \/ \E m \in Models : Start(p, m)
    \/ LoadCorpus(p)
    \/ CheckCache(p)
    \/ \E ok \in BOOLEAN : GenerateEmbedding(p, ok)
    \/ SaveOpen(p)
    \/ SaveOpenFail(p)
    \/ SaveDump(p)
    \/ SaveDumpFail(p)

\* The corpus files the threaded application is started over: two entries,
\* all well-formed or one without an answer.
ThreadFiles == {3, 5}

InitThreads ==
    /\ corpusFile \in ThreadFiles
    /\ cacheFile = NoCache
    /\ InitEngine
    /\ cosine = NoCosine

\* One engine process, constructed once, whose threads call
\* answer_question side by side.
NextThreads == Construct(1) \/ \E t \in Threads : ThreadStep(t)

SpecThreads == InitThreads /\ [][NextThreads]_vars

(***************************************************************************)
(* cosine_similarity on its own                                            *)
(***************************************************************************)

\* Vectors cosine_similarity may be given: the provider's, the empty list
\* of a failed embedding, and vectors whose norm is not a whole number.
V11  == <<1, 1, 0, 0, 0>>
V111 == <<1, 1, 1, 0, 0>>
V12  == <<1, 2, 0, 0, 0>>
N1   == <<-1, 0, 0, 0, 0>>
N11  == <<-1, -1, 0, 0, 0>>

CosVectors == {<<>>, Zero, E1, E2, B30, B85, V11, V111, V12, N1, N11}

\* A caller is about to call cosine_similarity(vec1, vec2).
InitCos ==
    /\ corpusFile = 1
    /\ cacheFile = NoCache
    /\ InitEngine
    /\ cosine \in {[NoCosine EXCEPT !.at = "called", !.vec1 = a, !.vec2 = b] :
                       a \in CosVectors, b \in CosVectors}

\* Lines 160-173.  value is what the call returns, swapped what the call
\* with the two arguments exchanged returns.
CosineCall ==
    /\ cosine.at = "called"
    /\ cosine' = [cosine EXCEPT
                     !.at = "returned",
                     !.value = CosineSimilarity(cosine.vec1, cosine.vec2),
                     !.swapped = CosineSimilarity(cosine.vec2, cosine.vec1)]
    /\ UNCHANGED <<corpusFile, cacheFile, pc, model, faq_data, current_hash,
                   embeddings, gen_i, result, src, embedLog, observed,
                   fromCache, saved, failedAt, prev, since, sinceFailed,
                   ranking, calls>>

NextCos == CosineCall

SpecCos == InitCos /\ [][NextCos]_vars

(***************************************************************************)
(* Properties                                                              *)
(***************************************************************************)

\* The start-up of p has passed _load_cached_embeddings and no query has
\* been answered since (observed and since still describe the start-up).
PastCheck(p) ==
    /\ result[p].kind = "none"
    /\ \/ pc[p] \in {"regenerating_cache", "saving_cache", "ready"}
       \/ pc[p] = "failed" /\ failedAt[p] # "load_faq"

\* The keys _load_cached_embeddings reads.
ReadKeys == {"file_hash", "faq_count", "model", "embeddings"}

\* The questions of the entries, in corpus order.
QuestionsOf(faqs) == [i \in 1..Len(faqs) |-> faqs[i].question]

\* The record p saw carries the current fingerprint, model and entry count.
Matches(p) ==
    /\ observed[p].kind = "record"
    /\ ReadKeys \subseteq observed[p].keys
    /\ observed[p].file_hash = current_hash[p]
    /\ observed[p].model = model[p]
    /\ observed[p].faq_count = Len(faq_data[p])

\* Every vector p holds came from a provider call of this start-up.
AllFromProvider(p) ==
    /\ Len(embeddings[p]) = Len(embedLog[p])
    /\ \A i \in 1..Len(embeddings[p]) :
           embeddings[p][i] \in {<<>>, ProviderVector(model[p], embedLog[p][i])}

\* C1: the record found at start-up is reused if and only if its
\* fingerprint, model and entry count all equal the current ones (and it
\* could be read); reused, its vectors become the engine's without a provider
\* call; rejected, every vector the engine holds came from the provider.
InvC1 ==
    \A p \in Procs :
        PastCheck(p) =>
            /\ fromCache[p] <=> Matches(p)
            /\ fromCache[p] =>
                   embeddings[p] = observed[p].embeddings /\ embedLog[p] = <<>>
            /\ ~fromCache[p] => AllFromProvider(p)

\* A record that matched in fingerprint and entry count but not in model was
\* rejected and the start-up completed.
WitC1 ==
    /\ PastCheck(1) /\ pc[1] = "ready"
    /\ observed[1].kind = "record" /\ observed[1].keys = CacheKeys
    /\ observed[1].file_hash = current_hash[1]
    /\ observed[1].faq_count = Len(faq_data[1])
    /\ observed[1].model # model[1]
    /\ ~fromCache[1] /\ Len(embedLog[1]) = 2

\* A pickled dict holds as many vectors as the entry count it states.
WholeRecord(file) ==
    file.kind = "record" /\ "embeddings" \in file.keys =>
        Len(file.embeddings) = file.faq_count

BytesChanged(p) ==
    /\ PastCheck(p)
    /\ observed[p].kind = "record"
    /\ observed[p].keys = CacheKeys
    /\ observed[p].src # src[p]

\* The start-up of p rejected the record and, once ready, has embedded every
\* entry.
Regenerates(p) ==
    /\ ~fromCache[p]
    /\ pc[p] = "ready" => embedLog[p] = QuestionsOf(faq_data[p])

\* C4 as claimed: corpus bytes that differ from those the record was built
\* from give a different fingerprint, and the record is rejected and every
\* vector regenerated.
InvC4Claimed ==
    \A p \in Procs :
        BytesChanged(p) =>
            /\ current_hash[p] # observed[p].file_hash
            /\ Regenerates(p)

\* C4: corpus bytes whose MD5 digest differs from that of the bytes the
\* record was built from (a whitespace-only change included) give a different
\* fingerprint, and the record is rejected and every vector regenerated.
InvC4 ==
    \A p \in Procs :
        BytesChanged(p)
          /\ FileTable[observed[p].src].md5 # FileTable[src[p]].md5 =>
            /\ current_hash[p] # observed[p].file_hash
            /\ Regenerates(p)

\* A record built from contents 1 was met by a start-up with the same model
\* over contents 2, which has the same entries and other whitespace.
WitC4 ==
    /\ BytesChanged(1) /\ pc[1] = "ready"
    /\ observed[1].src = 1 /\ src[1] = 2
    /\ observed[1].model = model[1]
    /\ embedLog[1] = <<"A">>

\* The cache file holds exactly the record of p's vectors and metadata.
Persisted(file, hash, count, mdl, embs) ==
    /\ file.kind = "record" /\ file.keys = CacheKeys
    /\ file.embeddings = embs
    /\ file.file_hash = hash
    /\ file.faq_count = count
    /\ file.model = mdl

InvC6 == \A p \in Procs : result[p].kind # "raised"

\* C7: a load that runs while another process is between the open and the
\* end of its save reads a complete record or none.
PropC7 ==
    [][\A p \in Procs :
           /\ pc[p] = "checking_cache" /\ pc'[p] # "checking_cache"
           /\ \E q \in Procs \ {p} : pc[q] = "saving_cache"
           => observed'[p].kind \in {"absent", "record"}]_vars

\* The file p saw cannot be unpickled, or is a dict without a key that
\* _load_cached_embeddings reads.
Unreadable(p) ==
    /\ PastCheck(p)
    /\ \/ observed[p].kind \in {"partial", "garbage"}
       \/ observed[p].kind = "record" /\ ~(ReadKeys \subseteq observed[p].keys)

\* C8: a cache file that cannot be unpickled or lacks a key the loader reads
\* is treated as an absent one: the load raises nothing and uses nothing of
\* the file, and the start-up regenerates every vector and gets ready (it
\* fails only where it fails without a cache file, on a corpus entry that
\* has no question).
InvC8 ==
    \A p \in Procs :
        /\ failedAt[p] # "load_cache"
        /\ Unreadable(p) =>
               /\ ~fromCache[p]
               /\ AllFromProvider(p)
               /\ pc[p] = "failed" => failedAt[p] = "generate"
               /\ pc[p] = "ready" =>
                      /\ embedLog[p] = QuestionsOf(faq_data[p])
                      /\ Len(embeddings[p]) = Len(faq_data[p])

\* A dict without its embeddings key, matching in fingerprint, entry count
\* and model, was found and the start-up regenerated and is ready.
WitC8 ==
    /\ Unreadable(1) /\ pc[1] = "ready"
    /\ observed[1].kind = "record"
    /\ observed[1].keys = CacheKeys \ {"embeddings"}
    /\ observed[1].file_hash = current_hash[1]
    /\ observed[1].faq_count = Len(faq_data[1])
    /\ observed[1].model = model[1]
    /\ Len(embedLog[1]) = 2

\* C9: with s the top similarity of the ranking and low the threshold passed
\* (at most 0.85), a returned result is low for s < low, medium for
\* low <= s <= 0.85 and high for s > 0.85.
InvC9 ==
    \A p \in Procs :
        result[p].kind = "returned" /\ result[p].similar_faqs # <<>> =>
            LET s    == result[p].similar_faqs[1].score
                low  == result[p].threshold
                high == (85 * Scale) \div 100
            IN /\ s < low => result[p].confidence = "low"
               /\ low <= s /\ s <= high => result[p].confidence = "medium"
               /\ s > high => result[p].confidence = "high"

\* A result whose top similarity equals the threshold passed.
WitC9 ==
    /\ result[1].kind = "returned" /\ result[1].similar_faqs # <<>>
    /\ result[1].similar_faqs[1].score = result[1].threshold
    /\ result[1].confidence = "medium"

\* C10: a call whose ranking is empty or has its top similarity below the
\* threshold returns the apology with confidence low, no matches and top
\* similarity 0, and makes no generative-model request.
InvC10 ==
    \A p \in Procs :
        /\ result[p].kind # "none"
        /\ result[p].raised_in # "find_similar_faqs"
        /\ \/ result[p].similar_faqs = <<>>
           \/ result[p].similar_faqs[1].score < result[p].threshold
        => /\ result[p].kind = "returned"
           /\ result[p].answer = "apology"
           /\ result[p].confidence = "low"
           /\ result[p].matched_faqs = <<>>
           /\ result[p].top_similarity = 0
           /\ result[p].llm_calls = 0

\* A call that ranked an entry at 0.3 under a threshold of 0.35.
WitC10 ==
    /\ result[1].kind = "returned" /\ result[1].similar_faqs # <<>>
    /\ result[1].similar_faqs[1].score = (30 * Scale) \div 100
    /\ result[1].threshold = (35 * Scale) \div 100
    /\ result[1].answer = "apology"

\* C11: a call whose question the embedding provider failed to embed
\* returns the apology with confidence low, no matches and top similarity 0;
\* it computes no similarity, ranks nothing and makes no generative-model
\* request.
InvC11 ==
    \A p \in Procs :
        result[p].kind # "none" /\ result[p].qvec = <<>> =>
            /\ result[p].kind = "returned"
            /\ result[p].answer = "apology"
            /\ result[p].confidence = "low"
            /\ result[p].matched_faqs = <<>>
            /\ result[p].top_similarity = 0
            /\ result[p].scored = 0
            /\ result[p].similar_faqs = <<>>
            /\ result[p].llm_calls = 0

\* The provider failed for the question on an engine holding two vectors.
WitC11 ==
    /\ result[1].kind = "returned" /\ result[1].qvec = <<>>
    /\ Len(embeddings[1]) = 2
    /\ embeddings[1][1] # <<>> /\ embeddings[1][2] # <<>>

\* The positions of p's vector list that hold a vector.
WithVector(p) == {i \in 1..Len(embeddings[p]) : embeddings[p][i] # <<>>}

\* Entry i goes before entry j in the ranking for qvec: its similarity is
\* higher, or equal with i earlier in the corpus.
Before(p, qvec, i, j) ==
    LET si == CosineSimilarity(qvec, embeddings[p][i])
        sj == CosineSimilarity(qvec, embeddings[p][j])
    IN si > sj \/ (si = sj /\ i < j)

\* The place of entry i in the full ranking for qvec.
PlaceOf(p, qvec, i) ==
    1 + Cardinality({j \in WithVector(p) : Before(p, qvec, j, i)})

\* C12: a find_similar_faqs call that embedded its question returns
\* min(top_k, n) pairs, n the number of entries with a non-empty vector:
\* the entry at each place up to that length, placed by similarity
\* descending and by corpus order among equal similarities, with its
\* similarity.
PropC12 ==
    [][\A p \in Procs :
           /\ ranking'[p] # ranking[p]
           /\ ranking'[p].kind = "returned"
           /\ ranking'[p].qvec # <<>>
           => LET r == ranking'[p]
                  n == Cardinality(WithVector(p))
              IN /\ Len(r.list) = IF r.top_k < n THEN r.top_k ELSE n
                 /\ \A i \in WithVector(p) :
                        PlaceOf(p, r.qvec, i) <= Len(r.list) =>
                            r.list[PlaceOf(p, r.qvec, i)] =
                                [faq   |-> faq_data[p][i],
                                 score |-> CosineSimilarity(
                                               r.qvec, embeddings[p][i])]]_vars

\* Three entries ranked with top_k = 2: the two of equal similarity come
\* first, in corpus order, and the third is cut off.
WitC12 ==
    /\ ranking[1].kind = "returned" /\ ranking[1].top_k = 2
    /\ Cardinality(WithVector(1)) = 3
    /\ Len(ranking[1].list) = 2
    /\ ranking[1].list[1].faq.id = 2 /\ ranking[1].list[2].faq.id = 3
    /\ ranking[1].list[1].score = ranking[1].list[2].score

\* C13: every iteration of the regeneration loop, whether the provider
\* answered or failed, appends one element at the entry's own position (the
\* provider's vector or the empty one) and leaves the loop running; a
\* regeneration that completes has embedded every entry; and every entry an
\* answer_question call ranks has a non-empty vector.
PropC13 ==
    [][\A p \in Procs :
           /\ pc[p] = "regenerating_cache" /\ gen_i'[p] = gen_i[p] + 1 =>
                  LET i    == gen_i'[p]
                      text == faq_data[p][i].question
                  IN /\ pc'[p] = "regenerating_cache"
                     /\ Len(embeddings'[p]) = i
                     /\ SubSeq(embeddings'[p], 1, i - 1) = embeddings[p]
                     /\ embeddings'[p][i] \in
                            {<<>>, ProviderVector(model[p], text)}
                     /\ embedLog'[p] = Append(embedLog[p], text)
           /\ pc[p] # "ready" /\ pc'[p] = "ready" /\ ~fromCache'[p] =>
                  embedLog'[p] = QuestionsOf(faq_data'[p])
           /\ \A k \in 1..Len(result'[p].similar_faqs) :
                  \E i \in 1..Len(embeddings'[p]) :
                      /\ embeddings'[p][i] # <<>>
                      /\ faq_data'[p][i] = result'[p].similar_faqs[k].faq]_vars

\* The provider failed for the first of two entries and answered for the
\* second; a query then ranked the second entry alone.
WitC13 ==
    /\ pc[1] = "ready" /\ ~fromCache[1]
    /\ Len(embeddings[1]) = 2
    /\ embeddings[1][1] = <<>> /\ embeddings[1][2] # <<>>
    /\ embedLog[1] = QuestionsOf(faq_data[1])
    /\ result[1].kind = "returned"
    /\ Len(result[1].similar_faqs) = 1
    /\ result[1].similar_faqs[1].faq = faq_data[1][2]

\* C14: a call whose generative-model request raised returns a result: its
\* answer is the non-empty fallback text, its top similarity is at or above
\* the threshold, and its matches, confidence and top similarity are those
\* of the same call with the request answered.
InvC14 ==
    \A p \in Procs :
        result[p].llm_calls = 1 /\ result[p].llm_failed =>
            LET answered == AnswerQuestion(faq_data[p], embeddings[p],
                                           model[p], result[p].question,
                                           result[p].threshold, TRUE, TRUE)
            IN /\ result[p].kind = "returned"
               /\ result[p].answer # ""
               /\ result[p].answer = "generation_error"
               /\ result[p].top_similarity >= result[p].threshold
               /\ answered.kind = "returned" /\ answered.llm_calls = 1
               /\ result[p].matched_faqs = answered.matched_faqs
               /\ result[p].confidence = answered.confidence
               /\ result[p].top_similarity = answered.top_similarity

\* The request raised on a call that ranked two entries, the first at 0.85.
WitC14 ==
    /\ result[1].llm_calls = 1 /\ result[1].llm_failed
    /\ Len(result[1].matched_faqs) = 2
    /\ result[1].top_similarity = (85 * Scale) \div 100
    /\ result[1].confidence = "medium"

\* C15: a call whose ranking has its top similarity at or above the
\* threshold returns a result after exactly one generative-model request;
\* the request's context and the result's matched_faqs list the ranked
\* matches in ranked order, and top_similarity is the first match's.
InvC15 ==
    \A p \in Procs :
        /\ result[p].kind # "none"
        /\ result[p].similar_faqs # <<>>
        /\ result[p].similar_faqs[1].score >= result[p].threshold
        => LET ranked == result[p].similar_faqs
           IN /\ result[p].kind = "returned"
              /\ result[p].llm_calls = 1
              /\ Len(result[p].llm_context) = Len(ranked)
              /\ Len(result[p].matched_faqs) = Len(ranked)
              /\ \A k \in 1..Len(ranked) :
                     /\ result[p].llm_context[k].question =
                            ranked[k].faq.question
                     /\ result[p].llm_context[k].answer = ranked[k].faq.id
                     /\ result[p].matched_faqs[k].question =
                            ranked[k].faq.question
              /\ result[p].top_similarity = ranked[1].score

\* The corpus file held by no process can be loaded.
BadCorpus == FileTable[corpusFile].kind # "ok"

\* C16: over a corpus file that is missing, is no JSON or has no 'faqs'
\* key, a start-up ends in load_faq with the exception passed to the caller:
\* the process gets no further than that, it has called the provider for
\* nothing, has not read the cache file and does not write it.
PropC16 ==
    [][\A p \in Procs :
           BadCorpus' =>
               /\ pc'[p] \in {"uninitialized", "loading_corpus", "failed"}
               /\ pc'[p] = "failed" =>
                      /\ failedAt'[p] = "load_faq"
                      /\ embedLog'[p] = <<>>
                      /\ embeddings'[p] = <<>>
                      /\ observed'[p] = NoCache
                      /\ saved'[p] = "none"
               /\ pc[p] # "uninitialized" => cacheFile' = cacheFile]_vars

\* A start-up failed on a document without the 'faqs' key while the cache
\* file held a record.
WitC16 ==
    /\ pc[1] = "failed" /\ failedAt[1] = "load_faq"
    /\ FileTable[corpusFile].kind = "nokey"
    /\ cacheFile.kind = "record"

\* C17: every entry held by a ready engine has a question and an answer.
InvC17 ==
    \A p \in Procs :
        pc[p] = "ready" =>
            \A i \in 1..Len(faq_data[p]) :
                {"question", "answer"} \subseteq faq_data[p][i].keys

\* The lifecycle state of the specification that a position of __init__
\* belongs to.
Phase(at) ==
    CASE at = "checking_cache" -> "loading_corpus"
      [] at = "saving_cache"   -> "regenerating_cache"
      [] OTHER                 -> at

\* The transitions of the lifecycle, with the failure of a start-up and the
\* end of the process.
LifecycleEdges ==
    {<<"uninitialized", "loading_corpus">>,
     <<"loading_corpus", "ready">>,
     <<"loading_corpus", "regenerating_cache">>,
     <<"regenerating_cache", "ready">>,
     <<"loading_corpus", "failed">>,
     <<"regenerating_cache", "failed">>,
     <<"ready", "uninitialized">>,
     <<"failed", "uninitialized">>}

\* C18: the engine moves along the lifecycle only, to ready from
\* loading_corpus exactly when the cache record is reused; and no step of a
\* ready engine makes a corpus-embedding call.
PropC18 ==
    [][\A p \in Procs :
           LET a == Phase(pc[p])
               b == Phase(pc'[p])
           IN /\ a # b => <<a, b>> \in LifecycleEdges
              /\ a = "loading_corpus" /\ b = "ready" => fromCache'[p]
              /\ a = "loading_corpus" /\ b = "regenerating_cache" =>
                     ~fromCache'[p]
              /\ a = "ready" /\ b = "ready" =>
                     embedLog'[p] = embedLog[p]]_vars

\* C19: a step in which a ready engine answers a question or ranks for one
\* leaves its corpus entries, its vector list and the cache file as they
\* were.
PropC19 ==
    [][\A p \in Procs :
           /\ pc[p] = "ready" /\ pc'[p] = "ready"
           /\ result'[p].kind # "none" \/ ranking'[p].kind # "none"
           => /\ faq_data'[p] = faq_data[p]
              /\ embeddings'[p] = embeddings[p]
              /\ cacheFile' = cacheFile]_vars

\* A direct find_similar_faqs call ranked both entries of an engine whose
\* vectors are those of the record in the cache file.
WitC19 ==
    /\ pc[1] = "ready" /\ ranking[1].kind = "returned"
    /\ Len(ranking[1].list) = 2 /\ Len(faq_data[1]) = 2
    /\ cacheFile.kind = "record" /\ cacheFile.embeddings = embeddings[1]

\* C20: whatever the interleaving, a step of one thread's call leaves the
\* question, the vector, the ranking and the result of every other thread's
\* call as they were, and a call that has ended holds the result that
\* answer_question gives alone for its question, its threshold and the
\* providers' responses to it.
PropC20 ==
    [][pc'[1] = "ready" =>
           /\ \A t, u \in Threads :
                  t # u /\ calls'[t] # calls[t] => calls'[u] = calls[u]
           /\ \A t \in Threads :
                  calls'[t].at = "done" =>
                      calls'[t].result =
                          AnswerQuestion(faq_data'[1], embeddings'[1],
                                         model'[1], calls'[t].question,
                                         calls'[t].threshold,
                                         calls'[t].embed_ok,
                                         calls'[t].llm_ok)]_vars

\* Two calls with different questions are in progress together, each with
\* its own vector and its own ranking, waiting for the generative model.
WitC20 ==
    /\ calls[1].at = "generating" /\ calls[2].at = "generating"
    /\ calls[1].question # calls[2].question
    /\ calls[1].qvec # calls[2].qvec
    /\ calls[1].similar_faqs # calls[2].similar_faqs

\* C21: the cache file changes under a running engine only in a start-up
\* that found no record it could reuse; a start-up that reuses the record
\* completes with the file as it found it; and a start-up that does not
\* completes with the file either untouched or holding its complete new
\* record.
PropC21 ==
    [][\A p \in Procs :
           /\ cacheFile' # cacheFile /\ pc[p] # "uninitialized" =>
                  /\ pc[p] \in {"regenerating_cache", "saving_cache"}
                  /\ ~fromCache[p] /\ ~Matches(p)
           /\ pc[p] # "ready" /\ pc'[p] = "ready" =>
                  IF fromCache'[p]
                  THEN cacheFile' = cacheFile /\ cacheFile' = observed'[p]
                  ELSE \/ cacheFile' = observed'[p]
                       \/ Persisted(cacheFile', current_hash'[p],
                                    Len(faq_data'[p]), model'[p],
                                    embeddings'[p])]_vars

\* C22: a save followed by a load round-trips: the record read back from the
\* file a save has written passes the validation of the engine that wrote
\* it and holds that engine's vector list (its empty vectors in place), its
\* fingerprint, its model identity and its entry count.
PropC22 ==
    [][\A p \in Procs :
           saved[p] # "ok" /\ saved'[p] = "ok" =>
               /\ LoadCachedEmbeddings(cacheFile', current_hash'[p],
                                       faq_data'[p], model'[p]).hit
               /\ Len(cacheFile'.embeddings) = Len(embeddings'[p])
               /\ \A i \in 1..Len(embeddings'[p]) :
                      cacheFile'.embeddings[i] = embeddings'[p][i]
               /\ cacheFile'.file_hash = current_hash'[p]
               /\ cacheFile'.model = model'[p]
               /\ cacheFile'.faq_count = Len(faq_data'[p])]_vars

\* A saved record whose vector list has an empty vector before a non-empty
\* one.
WitC22 ==
    /\ pc[1] = "ready" /\ saved[1] = "ok" /\ result[1].kind = "none"
    /\ Len(embeddings[1]) = 2
    /\ embeddings[1][1] = <<>> /\ embeddings[1][2] # <<>>
    /\ cacheFile.kind = "record" /\ cacheFile.embeddings = embeddings[1]

\* C23: cosine_similarity is symmetric in its arguments, its value lies in
\* [-1, 1], and it is 0 when either vector is empty or has zero norm.
InvC23 ==
    cosine.at = "returned" =>
        /\ cosine.value = cosine.swapped
        /\ -Scale <= cosine.value /\ cosine.value <= Scale
        /\ cosine.vec1 = <<>> \/ cosine.vec2 = <<>> => cosine.value = 0
        /\ Zero \in {cosine.vec1, cosine.vec2} => cosine.value = 0

\* high_threshold values an application would configure.  answer_question
\* has no parameter that takes one.
HighThresholdsWanted == {HighThreshold, (50 * Scale) \div 100}

\* C24: whatever low and high threshold the caller wants, a returned result
\* is low below the low threshold, high above the high threshold and medium
\* between them.
InvC24 ==
    \A p \in Procs : \A high \in HighThresholdsWanted :
        result[p].kind = "returned" /\ result[p].similar_faqs # <<>> =>
            LET s   == result[p].similar_faqs[1].score
                low == result[p].threshold
            IN /\ s < low => result[p].confidence = "low"
               /\ low <= s /\ s <= high => result[p].confidence = "medium"
               /\ low <= s /\ s > high => result[p].confidence = "high"

\* Vector i of p is the embedding of entry i's question, or empty.
Aligned(p) ==
    /\ Len(embeddings[p]) = Len(faq_data[p])
    /\ \A i \in 1..Len(embeddings[p]) :
           embeddings[p][i] \in
               {<<>>, ProviderVector(model[p], faq_data[p][i].question)}

\* Every match of p's last result pairs an entry with the similarity of the
\* question's vector to the vector at the entry's position.
PairedByPosition(p) ==
    \A k \in 1..Len(result[p].similar_faqs) :
        \E i \in 1..Len(embeddings[p]) :
            /\ embeddings[p][i] # <<>>
            /\ result[p].similar_faqs[k].faq = faq_data[p][i]
            /\ result[p].similar_faqs[k].score =
                   CosineSimilarity(result[p].qvec, embeddings[p][i])

\* C25 as claimed: in a started engine vector i is the embedding of entry
\* i's question or empty, and every ranked match pairs entry i with the
\* similarity computed from vector i.
InvC25Claimed ==
    \A p \in Procs :
        pc[p] = "ready" => Aligned(p) /\ PairedByPosition(p)

\* C25: in an engine that started by regenerating, or by reusing a record
\* built from the corpus bytes it loaded, vector i is the embedding of entry
\* i's question or empty; in every started engine each ranked match pairs
\* entry i with the similarity computed from vector i.
InvC25 ==
    \A p \in Procs :
        pc[p] = "ready" =>
            /\ (fromCache[p] => cacheFile.src = src[p]) => Aligned(p)
            /\ PairedByPosition(p)

\* An engine that reused a record of its own corpus, with the first vector
\* empty, has ranked the second entry alone.
WitC25 ==
    /\ pc[1] = "ready" /\ fromCache[1] /\ cacheFile.src = src[1]
    /\ Len(embeddings[1]) = 2
    /\ embeddings[1][1] = <<>> /\ embeddings[1][2] # <<>>
    /\ result[1].kind = "returned"
    /\ Len(result[1].similar_faqs) = 1
    /\ result[1].similar_faqs[1].faq = faq_data[1][2]

\* C26: after any sequence of calls of the public methods a started engine
\* holds as many vectors as entries.
InvC26 ==
    \A p \in Procs :
        pc[p] = "ready" => Len(embeddings[p]) = Len(faq_data[p])

\* The vectors held by the start-up before p's, which had p's corpus and
\* model: the provider's vector for each entry, none where it had failed.
Regenerated(p) ==
    [i \in 1..Len(faq_data[p]) |->
        IF i \in sinceFailed[p] THEN <<>>
        ELSE ProviderVector(model[p], faq_data[p][i].question)]

\* p holds the vectors of Regenerated(p) and a call it answers returns what
\* an engine holding those vectors returns.
Transparent(p) ==
    /\ embeddings[p] = Regenerated(p)
    /\ result'[p] # result[p] /\ result'[p].kind # "none" =>
           \E eok \in BOOLEAN, lok \in BOOLEAN :
               result'[p] =
                   AnswerQuestion(faq_data[p], Regenerated(p), model[p],
                                  result'[p].question, result'[p].threshold,
                                  eok, lok)

\* C27 as claimed: an engine that reused the record left by the start-up
\* before it, with the same corpus and model, holds the vectors a
\* regenerating engine holds and returns the same results.
PropC27Claimed ==
    [][\A p \in Procs :
           pc[p] = "ready" /\ fromCache[p] /\ since[p] = "same_persisted" =>
               Transparent(p)]_vars

\* C27: an engine that reused the record left by the start-up before it,
\* with the same corpus and model, the record having been built from this
\* corpus, holds the vectors a regenerating engine holds and returns the
\* same results.
PropC27 ==
    [][\A p \in Procs :
           /\ pc[p] = "ready" /\ fromCache[p] /\ since[p] = "same_persisted"
           /\ cacheFile.src = src[p]
           => Transparent(p)]_vars

\* An engine started from the record of a regeneration in which the first
\* of two embeddings had failed.
WitC27 ==
    /\ pc[1] = "ready" /\ fromCache[1] /\ since[1] = "same_persisted"
    /\ cacheFile.src = src[1]
    /\ Len(faq_data[1]) = 2 /\ sinceFailed[1] = {1}
    /\ embeddings[1][2] # <<>>

\* C28: a result returned for a positive threshold is low exactly when it
\* has no matches and exactly when its top similarity is 0; a result that is
\* not low has one to three matches, and its top similarity is at least the
\* threshold and is the greatest similarity among its matches.
InvC28 ==
    \A p \in Procs :
        result[p].kind = "returned" /\ result[p].threshold > 0 =>
            LET r == result[p]
            IN /\ r.confidence = "low" <=> r.matched_faqs = <<>>
               /\ r.matched_faqs = <<>> <=> r.top_similarity = 0
               /\ r.confidence # "low" =>
                      /\ Len(r.matched_faqs) \in 1..3
                      /\ Len(r.matched_faqs) = Len(r.similar_faqs)
                      /\ r.top_similarity >= r.threshold
                      /\ \E k \in 1..Len(r.similar_faqs) :
                             r.similar_faqs[k].score = r.top_similarity
                      /\ \A k \in 1..Len(r.similar_faqs) :
                             /\ r.similar_faqs[k].score <= r.top_similarity
                             /\ r.matched_faqs[k].similarity =
                                    Hundredths(r.similar_faqs[k].score)

\* A result with three matches, the last of them below the threshold.
WitC28 ==
    /\ result[1].kind = "returned" /\ result[1].confidence = "medium"
    /\ Len(result[1].matched_faqs) = 3
    /\ result[1].similar_faqs[3].score < result[1].threshold
    /\ result[1].top_similarity >= result[1].threshold

\* In a start-up of p, entry i is not embedded again, and once p is ready
\* it has reused the record, holds no vector for entry i and ranks no match
\* for it.
NotRetried(p, i) ==
    /\ Len(embedLog[p]) < i /\ Len(embedLog'[p]) < i
    /\ pc[p] = "ready" =>
           /\ fromCache[p] /\ embeddings[p][i] = <<>>
           /\ \A k \in 1..Len(result'[p].similar_faqs) :
                  result'[p].similar_faqs[k].faq # faq_data[p][i]

PropC30 ==
    [][\A p \in Procs :
           /\ saved[p] # "failed" /\ saved'[p] = "failed" =>
                  /\ pc'[p] = "ready" /\ ~fromCache'[p]
                  /\ embedLog'[p] = QuestionsOf(faq_data'[p])
                  /\ Len(embeddings'[p]) = Len(faq_data'[p])
                  /\ \A i \in 1..Len(embeddings'[p]) :
                         embeddings'[p][i] \in
                             {<<>>, ProviderVector(model'[p],
                                                   faq_data'[p][i].question)}
           /\ saved[p] = "failed" /\ result'[p] # result[p]
                                  /\ result'[p].kind # "none" =>
                  /\ embeddings'[p] = embeddings[p]
                  /\ \E eok \in BOOLEAN, lok \in BOOLEAN :
                         result'[p] =
                             AnswerQuestion(faq_data[p], embeddings[p],
                                            model[p], result'[p].question,
                                            result'[p].threshold, eok, lok)
           /\ since[p] = "same_unpersisted" =>
                  /\ ~fromCache[p] /\ ~fromCache'[p]
                  /\ pc'[p] = "ready" =>
                         embedLog'[p] = QuestionsOf(faq_data'[p])]_vars

\* An engine whose save was cut short, leaving a half-written file, has
\* answered a question from the vectors it holds.
WitC30 ==
    /\ pc[1] = "ready" /\ saved[1] = "failed" /\ cacheFile.kind = "partial"
    /\ result[1].kind = "returned" /\ result[1].confidence = "high"
    /\ Len(result[1].matched_faqs) = 2

====
